---- MODULE Spec2Model ----
(***************************************************************************)
(* A model of src/src/api/chains/ton/staking.ts: the staking state         *)
(* aggregator (getStakingStates and the per-variant builders), the draft   *)
(* builder (checkStakeDraft, checkUnstakeDraft, submitStake, submitUnstake,*)
(* submitTokenStakingClaim, submitUnstakeEthenaLocked), the backend trust  *)
(* gate (fetchBackendStakingState) and the round/window resolver           *)
(* (getLiquidStakingTimeRange).                                            *)
(*                                                                         *)
(* Amounts are bigint minor units.  A JS `number` holding a decimal (a     *)
(* rate, a backend decimal string) is represented by its count of          *)
(* 1/DecimalDen steps; fromDecimal turns it into minor units.  Times are   *)
(* Date.now() readings on a scaled clock.                                  *)
(***************************************************************************)
EXTENDS Integers, Sequences, FiniteSets, TLC

\* ------------------------------------------------------------------ bounds
MaxAmount == 5
MaxFee == 2
MaxTime == 5

\* ------------------------------------------------------- program constants
\* `undefined` for an optional number (bigint | undefined, number | undefined)
Undefined == -1
\* minor units in one coin (ONE_TON), and the steps in which decimals are held
ONE_TON == 4
DecimalDen == 4
UNSTAKE_TON_GRACE_PERIOD == 2
VALIDATION_PERIOD_MS == 2
MsPerSecond == 2

\* TON_GAS of ./constants, in minor units on the model's scale
TON_GAS ==
  [ stakeNominators |-> ONE_TON,
    unstakeNominators |-> 3,
    stakeLiquid |-> 2,
    unstakeLiquid |-> 1,
    stakeJettonsForward |-> 1,
    unstakeJettons |-> 2,
    claimJettons |-> 1,
    stakeEthenaForward |-> 2,
    unstakeEthenaForward |-> 3,
    unstakeEthenaLocked |-> 2,
    unstakeEthenaLockedForward |-> 1 ]

\* An address string is held as its parts: the account it names (a tuple of name tokens)
\* and the two flags of the user-friendly form.
Addr(raw) == [raw |-> raw, bounceable |-> TRUE, testOnly |-> FALSE]

\* no address (an optional address left undefined)
NoAddress == [raw |-> <<>>, bounceable |-> FALSE, testOnly |-> FALSE]

STAKE_COMMENT == "d"
UNSTAKE_COMMENT == "w"
LIQUID_POOL == Addr(<<"liquidPool">>)
LIQUID_JETTON == Addr(<<"liquidJetton">>)
ETHENA_STAKING_VAULT == Addr(<<"ethenaVault">>)
DEBUG == FALSE

buildTokenSlug(chain, tokenAddress) == <<chain>> \o tokenAddress.raw

TONCOIN == [slug |-> <<"toncoin">>]
TON_USDE == [slug |-> buildTokenSlug("ton", Addr(<<"usdeMaster">>)), tokenAddress |-> Addr(<<"usdeMaster">>)]
TON_TSUSDE == [slug |-> buildTokenSlug("ton", Addr(<<"tsUsdeMaster">>)), tokenAddress |-> Addr(<<"tsUsdeMaster">>)]

ApiTransactionDraftError == [InvalidAmount |-> "InvalidAmount"]
ApiLiquidUnstakeMode == [Default |-> "default", Instant |-> "instant", BestRate |-> "bestRate"]

Networks == {"mainnet", "testnet"}

\* ------------------------------------------------------------ pure helpers
Nullish(x, d) == IF x = Undefined THEN d ELSE x

MathMax(a, b) == IF a >= b THEN a ELSE b

\* util/decimals: a decimal to minor units
fromDecimal(d) == (d * ONE_TON) \div DecimalDen

\* util/bigint: value * rate and value / rate on scaled integers, truncating
bigintMultiplyToNumber(value, num) == (value * fromDecimal(num)) \div ONE_TON

bigintDivideToNumber(value, num) == (value * ONE_TON) \div fromDecimal(num)

\* ./util/tonCore toBase64Address: the user-friendly form of an address
toBase64Address(address, isBounceable, network) ==
  [raw |-> address.raw, bounceable |-> isBounceable, testOnly |-> network = "testnet"]

\* common/utils isKnownStakingPool: membership in the allow-list
KnownPools == {Addr(<<"poolA">>), Addr(<<"poolB">>)}

isKnownStakingPool(address) == address \in KnownPools

\* ./util/tonCore payload builders
buildLiquidStakingDepositBody == [type |-> "liquidDeposit"]

buildLiquidStakingWithdrawBody(p) ==
  [ type |-> "liquidWithdraw", amount |-> p.amount, responseAddress |-> p.responseAddress,
    fillOrKill |-> p.fillOrKill, waitTillRoundEnd |-> p.waitTillRoundEnd ]

buildJettonUnstakePayload(amount, forceUnstake) ==
  [type |-> "jettonUnstake", amount |-> amount, force |-> forceUnstake]

stakePayload(period) == [type |-> "jettonStake", period |-> period]

CommentPayload(text) == [type |-> "comment", text |-> text]

NoPayload == [type |-> "none"]

\* the wallet address of the account (fetchStoredWallet)
WalletAddress == Addr(<<"wallet">>)

\* resolveTokenWalletAddress: the token wallet of an owner for a token master
TokenWallet(owner, master) == Addr(<<"jw">> \o owner.raw \o master.raw)

\* variant: within the grace period the collection flag is not consulted
getLiquidStakingTimeRange_IgnoresCollection(commonData, nowMs) ==
  LET prevRound == commonData.prevRound
      currentRound == commonData.round
      gracePeriod == UNSTAKE_TON_GRACE_PERIOD
      useCurrent ==
        \/ ( /\ nowMs > prevRound.unlock
             /\ nowMs < prevRound.unlock + gracePeriod )
        \/ nowMs >= prevRound.unlock + gracePeriod
      round == IF useCurrent THEN currentRound ELSE prevRound
  IN [start |-> round.start, end |-> round.unlock + gracePeriod]

\* variant: the start is always read from the current round
getLiquidStakingTimeRange_StartOfCurrent(commonData, nowMs) ==
  LET prevRound == commonData.prevRound
      currentRound == commonData.round
      gracePeriod == UNSTAKE_TON_GRACE_PERIOD
      useCurrent ==
        \/ ( /\ nowMs > prevRound.unlock
             /\ nowMs < prevRound.unlock + gracePeriod
             /\ ~commonData.liquid.collection )
        \/ nowMs >= prevRound.unlock + gracePeriod
      round == IF useCurrent THEN currentRound ELSE prevRound
  IN [start |-> currentRound.start, end |-> round.unlock + gracePeriod]

\* ------------------------------------------------ round / window resolver
\* getLiquidStakingTimeRange, with Date.now() passed as nowMs
getLiquidStakingTimeRange(commonData, nowMs) ==
  LET prevRound == commonData.prevRound
      currentRound == commonData.round
      gracePeriod == UNSTAKE_TON_GRACE_PERIOD
      useCurrent ==
        \/ ( /\ nowMs > prevRound.unlock
             /\ nowMs < prevRound.unlock + gracePeriod
             /\ ~commonData.liquid.collection )
        \/ nowMs >= prevRound.unlock + gracePeriod
      round == IF useCurrent THEN currentRound ELSE prevRound
  IN [start |-> round.start, end |-> round.unlock + gracePeriod]

\* ------------------------------------------------------- state aggregator
BalanceOf(balances, slug) == IF slug \in DOMAIN balances THEN balances[slug] ELSE 0

\* variant: the cached hint is ignored
LiquidStakedAt_BackendOnly(cacheStakedAt, backendState) ==
  Nullish(backendState.stakedAt, 0)

\* Math.max(accountCache.stakedAt ?? 0, backendState.stakedAt ?? 0)
LiquidStakedAt(cacheStakedAt, backendState) ==
  MathMax(Nullish(cacheStakedAt, 0), Nullish(backendState.stakedAt, 0))

\* variant: the instant withdrawal opens when the validation period ends, not after it
buildLiquidState_InstantAtPeriodEnd(o, nowMs, cacheStakedAt, simulateLongUnstaking) ==
  LET currentRate == o.commonData.liquid.currentRate
      tokenSlug == buildTokenSlug("ton", LIQUID_JETTON)
      tokenBalance == BalanceOf(o.balances, tokenSlug)
      unstakeRequestAmount == fromDecimal(Nullish(o.backendState.liquidUnstakeRequestAmount, 0))
      stakedAt == LiquidStakedAt(cacheStakedAt, o.backendState)
      isInstantUnstake == nowMs - stakedAt >= VALIDATION_PERIOD_MS /\ ~simulateLongUnstaking
      liquidAvailable == IF isInstantUnstake THEN o.commonData.liquid.available ELSE 0
      range == getLiquidStakingTimeRange(o.commonData, nowMs)
      loyaltyType == o.backendState.loyaltyType
      liquidApy == IF loyaltyType /= "none" /\ loyaltyType \in DOMAIN o.commonData.liquid.loyaltyApy
                   THEN o.commonData.liquid.loyaltyApy[loyaltyType]
                   ELSE o.commonData.liquid.apy
      balance == bigintMultiplyToNumber(tokenBalance, currentRate) + unstakeRequestAmount
  IN [ type |-> "liquid", id |-> <<"liquid">>, tokenSlug |-> TONCOIN.slug, pool |-> LIQUID_POOL,
       balance |-> balance, annualYield |-> liquidApy, yieldType |-> "APY",
       tokenBalance |-> tokenBalance, unstakeRequestAmount |-> unstakeRequestAmount,
       instantAvailable |-> liquidAvailable, start |-> range.start, end |-> range.end ]

\* buildLiquidState; o is the StakingStateOptions record
buildLiquidState(o, nowMs, cacheStakedAt, simulateLongUnstaking) ==
  LET currentRate == o.commonData.liquid.currentRate
      tokenSlug == buildTokenSlug("ton", LIQUID_JETTON)
      tokenBalance == BalanceOf(o.balances, tokenSlug)
      unstakeRequestAmount == fromDecimal(Nullish(o.backendState.liquidUnstakeRequestAmount, 0))
      stakedAt == LiquidStakedAt(cacheStakedAt, o.backendState)
      isInstantUnstake == nowMs - stakedAt > VALIDATION_PERIOD_MS /\ ~simulateLongUnstaking
      liquidAvailable == IF isInstantUnstake THEN o.commonData.liquid.available ELSE 0
      range == getLiquidStakingTimeRange(o.commonData, nowMs)
      loyaltyType == o.backendState.loyaltyType
      liquidApy == IF loyaltyType /= "none" /\ loyaltyType \in DOMAIN o.commonData.liquid.loyaltyApy
                   THEN o.commonData.liquid.loyaltyApy[loyaltyType]
                   ELSE o.commonData.liquid.apy
      balance == bigintMultiplyToNumber(tokenBalance, currentRate) + unstakeRequestAmount
  IN [ type |-> "liquid", id |-> <<"liquid">>, tokenSlug |-> TONCOIN.slug, pool |-> LIQUID_POOL,
       balance |-> balance, annualYield |-> liquidApy, yieldType |-> "APY",
       tokenBalance |-> tokenBalance, unstakeRequestAmount |-> unstakeRequestAmount,
       instantAvailable |-> liquidAvailable, start |-> range.start, end |-> range.end ]

\* buildNominatorsState after getListNominators has returned `nominators`
buildNominatorsState(o, nominators) ==
  LET np == o.backendState.nominatorsPool
      found == SelectSeq(nominators, LAMBDA n : n.address = WalletAddress)
      balance == IF o.backendState.type = "nominators" THEN o.backendState.balance
                 ELSE IF found /= <<>> THEN found[1].amount + found[1].pendingDepositAmount
                 ELSE 0
  IN [ type |-> "nominators", id |-> <<"nominators">>, tokenSlug |-> TONCOIN.slug,
       balance |-> balance, annualYield |-> np.apy, yieldType |-> "APY", pool |-> np.address,
       start |-> np.start, end |-> np.end + UNSTAKE_TON_GRACE_PERIOD,
       unstakeRequestAmount |->
         IF found /= <<>> /\ found[1].withdrawRequested THEN balance ELSE 0 ]

RECURSIVE ActiveSpeed_IgnoresStart(_, _)
\* variant: a deposit counts from before its start time
ActiveSpeed_IgnoresStart(deposits, now) ==
  IF deposits = <<>> THEN 0
  ELSE LET d == Head(deposits)
       IN (IF d.endTime > now THEN d.distributionSpeed ELSE 0)
          + ActiveSpeed_IgnoresStart(Tail(deposits), now)

RECURSIVE ActiveSpeed(_, _)
\* the loop of buildJettonState over rewardsDeposits
ActiveSpeed(deposits, now) ==
  IF deposits = <<>> THEN 0
  ELSE LET d == Head(deposits)
       IN (IF d.startTime < now /\ d.endTime > now THEN d.distributionSpeed ELSE 0)
          + ActiveSpeed(Tail(deposits), now)

\* util/ton/calcJettonStakingApr: the annualized daily reward over the tvl, in percent
calcJettonStakingApr(tvl, dailyReward) ==
  IF tvl = 0 THEN 0 ELSE (dailyReward * 365 * 100) \div tvl

NoWalletData == [present |-> FALSE]

\* getJettonPoolStakeWallet: the stake wallet of an owner in a pool for a period
StakeWalletOf(poolAddress, period, owner) ==
  Addr(<<"sw">> \o poolAddress.raw \o <<ToString(period)>> \o owner.raw)

\* buildJettonState after its reads: walletData is NoWalletData when the storage read was
\* skipped or failed
buildJettonState(o, pool, nowMs, walletData) ==
  LET now == nowMs \div MsPerSecond
      dailyReward == ActiveSpeed(pool.poolConfig.rewardsDeposits, now)
      apr == calcJettonStakingApr(pool.poolConfig.tvl, dailyReward)
      periodConfig == pool.periods[1]
      poolWalletAddress == TokenWallet(pool.pool, pool.token)
      has == walletData.present
      rewards == IF has THEN walletData.rewards ELSE <<>>
  IN [ type |-> "jetton", id |-> pool.pool.raw, pool |-> pool.pool, tokenAddress |-> pool.token,
       tokenSlug |-> buildTokenSlug("ton", pool.token), annualYield |-> apr, yieldType |-> "APR",
       balance |-> IF has THEN walletData.jettonBalance ELSE 0,
       unclaimedRewards |->
         IF has /\ poolWalletAddress \in DOMAIN rewards THEN rewards[poolWalletAddress] ELSE 0,
       hasPoolWallets |-> has,
       poolWallets |-> IF has THEN DOMAIN rewards ELSE {},
       stakeWalletAddress |->
         toBase64Address(StakeWalletOf(pool.pool, periodConfig.period, WalletAddress), TRUE, "mainnet"),
       tokenAmount |-> 0, tvl |-> pool.poolConfig.tvl, dailyReward |-> dailyReward,
       period |-> periodConfig.period ]

\* util/staking getIsActiveStakingState
getIsActiveStakingState(state) == state.balance /= 0 \/ state.unstakeRequestAmount /= 0

\* the rate of the ethena conversion: the number 1 on testnet
EthenaRate(network, commonData) ==
  IF network = "testnet" THEN DecimalDen ELSE commonData.ethena.rate

\* variant: the yield always follows the verification flag
buildEthenaState_NoOptimisticYield(o, timeLock) ==
  LET e == o.commonData.ethena
      isVerified == o.backendState.isVerified
      rate == EthenaRate(o.network, o.commonData)
      tsUsdeWalletAddress == TokenWallet(WalletAddress, TON_TSUSDE.tokenAddress)
      tokenBalance == BalanceOf(o.balances, TON_TSUSDE.slug)
      balance == bigintMultiplyToNumber(tokenBalance, rate)
  IN [ id |-> <<"ethena">>, type |-> "ethena", tokenSlug |-> TON_USDE.slug, yieldType |-> "APY",
       annualYield |-> IF isVerified = "true" THEN e.apyVerified ELSE e.apy,
       annualYieldStandard |-> e.apy, annualYieldVerified |-> e.apyVerified,
       balance |-> balance, pool |-> ETHENA_STAKING_VAULT, tokenBalance |-> tokenBalance,
       unstakeRequestAmount |-> timeLock.lockedUsdeBalance,
       unlockTime |->
         IF timeLock.unlockTime /= 0 /\ timeLock.lockedUsdeBalance /= 0
         THEN timeLock.unlockTime * MsPerSecond ELSE Undefined,
       tsUsdeWalletAddress |-> tsUsdeWalletAddress ]

\* buildEthenaState after resolveTokenWalletAddress and getTimeLockData have returned
buildEthenaState(o, timeLock) ==
  LET e == o.commonData.ethena
      isVerified == o.backendState.isVerified
      rate == EthenaRate(o.network, o.commonData)
      tsUsdeWalletAddress == TokenWallet(WalletAddress, TON_TSUSDE.tokenAddress)
      tokenBalance == BalanceOf(o.balances, TON_TSUSDE.slug)
      balance == bigintMultiplyToNumber(tokenBalance, rate)
      state ==
        [ id |-> <<"ethena">>, type |-> "ethena", tokenSlug |-> TON_USDE.slug, yieldType |-> "APY",
          annualYield |-> IF isVerified = "true" THEN e.apyVerified ELSE e.apy,
          annualYieldStandard |-> e.apy, annualYieldVerified |-> e.apyVerified,
          balance |-> balance, pool |-> ETHENA_STAKING_VAULT, tokenBalance |-> tokenBalance,
          unstakeRequestAmount |-> timeLock.lockedUsdeBalance,
          unlockTime |->
            IF timeLock.unlockTime /= 0 /\ timeLock.lockedUsdeBalance /= 0
            THEN timeLock.unlockTime * MsPerSecond ELSE Undefined,
          tsUsdeWalletAddress |-> tsUsdeWalletAddress ]
  IN IF isVerified = "undefined" /\ ~getIsActiveStakingState(state)
     THEN [state EXCEPT !.annualYield = e.apyVerified]
     ELSE state

\* ---------------------------------------------------------- draft builder
\* the argument of checkTransactionDraft / submitGasfullTransfer
Transfer(toAddress, amount, tokenAddress, payload, forwardAmount) ==
  [ called |-> TRUE, toAddress |-> toAddress, amount |-> amount, tokenAddress |-> tokenAddress,
    payload |-> payload, forwardAmount |-> forwardAmount ]

\* the pipeline was not called
NoTransfer == [called |-> FALSE]

\* what checkTransactionDraft answers: an error, or a draft result with an optional fee
DraftError(e) == [error |-> e, fee |-> Undefined]

DraftOk(fee) == [error |-> "none", fee |-> fee]

\* 'fee' in result && result.fee
HasFee(result) == result.error = "none" /\ result.fee /= Undefined /\ result.fee /= 0

\* the pool token of a jetton state (getTokenBySlug(tokenSlug).tokenAddress)
TokenAddressOf(state) == state.tokenAddress

\* variant: the nominators minimum is one minor unit lower
checkStakeDraft_LowerMinimum(amount, state, pipe) ==
  CASE state.type = "nominators" ->
         IF amount + 1 < TON_GAS.stakeNominators
         THEN [draft |-> NoTransfer, result |-> DraftError(ApiTransactionDraftError.InvalidAmount)]
         ELSE [ draft |-> Transfer(state.pool, amount + TON_GAS.stakeNominators, NoAddress,
                                   CommentPayload(STAKE_COMMENT), Undefined),
                result |-> IF HasFee(pipe)
                           THEN [pipe EXCEPT !.fee = TON_GAS.stakeNominators + pipe.fee]
                           ELSE pipe ]
    [] state.type = "liquid" ->
         [ draft |-> Transfer(LIQUID_POOL, amount + TON_GAS.stakeLiquid, NoAddress,
                              buildLiquidStakingDepositBody, Undefined),
           result |-> IF HasFee(pipe)
                      THEN [pipe EXCEPT !.fee = TON_GAS.stakeLiquid + pipe.fee]
                      ELSE pipe ]
    [] state.type = "jetton" ->
         [ draft |-> Transfer(state.pool, amount, TokenAddressOf(state), stakePayload(state.period),
                              TON_GAS.stakeJettonsForward),
           result |-> pipe ]
    [] state.type = "ethena" ->
         [ draft |-> Transfer(ETHENA_STAKING_VAULT, amount, TON_USDE.tokenAddress, NoPayload,
                              TON_GAS.stakeEthenaForward),
           result |-> pipe ]

\* checkStakeDraft: [draft, result] for the pipeline's answer `pipe`
checkStakeDraft(amount, state, pipe) ==
  CASE state.type = "nominators" ->
         IF amount < TON_GAS.stakeNominators
         THEN [draft |-> NoTransfer, result |-> DraftError(ApiTransactionDraftError.InvalidAmount)]
         ELSE [ draft |-> Transfer(state.pool, amount + TON_GAS.stakeNominators, NoAddress,
                                   CommentPayload(STAKE_COMMENT), Undefined),
                result |-> IF HasFee(pipe)
                           THEN [pipe EXCEPT !.fee = TON_GAS.stakeNominators + pipe.fee]
                           ELSE pipe ]
    [] state.type = "liquid" ->
         [ draft |-> Transfer(LIQUID_POOL, amount + TON_GAS.stakeLiquid, NoAddress,
                              buildLiquidStakingDepositBody, Undefined),
           result |-> IF HasFee(pipe)
                      THEN [pipe EXCEPT !.fee = TON_GAS.stakeLiquid + pipe.fee]
                      ELSE pipe ]
    [] state.type = "jetton" ->
         [ draft |-> Transfer(state.pool, amount, TokenAddressOf(state), stakePayload(state.period),
                              TON_GAS.stakeJettonsForward),
           result |-> pipe ]
    [] state.type = "ethena" ->
         [ draft |-> Transfer(ETHENA_STAKING_VAULT, amount, TON_USDE.tokenAddress, NoPayload,
                              TON_GAS.stakeEthenaForward),
           result |-> pipe ]

\* buildLiquidStakingWithdraw once resolveTokenWalletAddress has answered
buildLiquidStakingWithdraw(network, address, amount, mode) ==
  [ amount |-> TON_GAS.unstakeLiquid,
    toAddress |-> TokenWallet(address, LIQUID_JETTON),
    payload |-> buildLiquidStakingWithdrawBody(
      [ amount |-> amount, responseAddress |-> address,
        fillOrKill |-> mode = ApiLiquidUnstakeMode.Instant,
        waitTillRoundEnd |-> mode = ApiLiquidUnstakeMode.BestRate ]) ]

\* variant: the token amount is always derived from the rate
UnstakeTokenAmount_AlwaysDivides(network, amount, state, commonData) ==
  CASE state.type = "nominators" -> Undefined
    [] state.type = "liquid" -> bigintDivideToNumber(amount, commonData.liquid.currentRate)
    [] state.type = "jetton" -> amount
    [] state.type = "ethena" -> bigintDivideToNumber(amount, EthenaRate(network, commonData))

\* the tokenAmount checkUnstakeDraft resolves
UnstakeTokenAmount(network, amount, state, commonData) ==
  CASE state.type = "nominators" -> Undefined
    [] state.type = "liquid" ->
         IF amount = state.balance THEN state.tokenBalance
         ELSE bigintDivideToNumber(amount, commonData.liquid.currentRate)
    [] state.type = "jetton" -> amount
    [] state.type = "ethena" ->
         IF amount = state.balance THEN state.tokenBalance
         ELSE bigintDivideToNumber(amount, EthenaRate(network, commonData))

\* checkUnstakeDraft: [draft, result, tokenAmount, type] for the pipeline's answer `pipe`
checkUnstakeDraft(network, amount, state, commonData, pipe) ==
  LET tokenAmount == UnstakeTokenAmount(network, amount, state, commonData)
      draft ==
        CASE state.type = "nominators" ->
               Transfer(state.pool, TON_GAS.unstakeNominators, NoAddress,
                        CommentPayload(UNSTAKE_COMMENT), Undefined)
          [] state.type = "liquid" ->
               LET params == buildLiquidStakingWithdraw(network, WalletAddress, tokenAmount,
                                                        ApiLiquidUnstakeMode.Default)
               IN Transfer(params.toAddress, params.amount, NoAddress, params.payload, Undefined)
          [] state.type = "jetton" ->
               Transfer(state.stakeWalletAddress, TON_GAS.unstakeJettons, NoAddress,
                        buildJettonUnstakePayload(amount, TRUE), Undefined)
          [] state.type = "ethena" ->
               Transfer(TON_TSUSDE.tokenAddress, tokenAmount, TON_TSUSDE.tokenAddress, NoPayload,
                        TON_GAS.unstakeEthenaForward)
  IN [draft |-> draft, result |-> pipe, tokenAmount |-> tokenAmount, type |-> state.type]

\* what submitGasfullTransfer answers: an error, or a result with localActivityParams
SubmitError(e) == [error |-> e]

SubmitOk(txId, params) == [error |-> "none", txId |-> txId, localActivityParams |-> params]

\* the localActivityParams the pipeline itself reports for a transfer
PipelineParams(transfer) ==
  [ toAddress |-> transfer.toAddress, amount |-> transfer.amount, slug |-> TONCOIN.slug,
    type |-> "transfer", isIncoming |-> FALSE, fromAddress |-> WalletAddress ]

\* submitStake up to its call of submitGasfullTransfer: [transfer, toAddress, slug]
StakeTransfer(network, amount, state) ==
  CASE state.type = "nominators" ->
         LET toAddress == toBase64Address(state.pool, TRUE, network)
         IN [ transfer |-> Transfer(toAddress, amount + TON_GAS.stakeNominators, NoAddress,
                                    CommentPayload(STAKE_COMMENT), Undefined),
              toAddress |-> toAddress ]
    [] state.type = "liquid" ->
         [ transfer |-> Transfer(LIQUID_POOL, amount + TON_GAS.stakeLiquid, NoAddress,
                                 buildLiquidStakingDepositBody, Undefined),
           toAddress |-> LIQUID_POOL ]
    [] state.type = "jetton" ->
         [ transfer |-> Transfer(state.pool, amount, TokenAddressOf(state),
                                 stakePayload(state.period), TON_GAS.stakeJettonsForward),
           toAddress |-> state.pool ]
    [] state.type = "ethena" ->
         [ transfer |-> Transfer(ETHENA_STAKING_VAULT, amount, TON_USDE.tokenAddress, NoPayload,
                                 TON_GAS.stakeEthenaForward),
           toAddress |-> ETHENA_STAKING_VAULT ]

\* variant: an available instant withdrawal is requested fill-or-kill
UnstakeTransfer_InstantWhenAvailable(network, amount, state) ==
  CASE state.type = "nominators" ->
         LET toAddress == toBase64Address(state.pool, TRUE, network)
         IN [ transfer |-> Transfer(toAddress, TON_GAS.unstakeNominators, NoAddress,
                                    CommentPayload(UNSTAKE_COMMENT), Undefined),
              toAddress |-> toAddress, slug |-> TONCOIN.slug ]
    [] state.type = "liquid" ->
         LET mode == IF state.instantAvailable = 0 THEN ApiLiquidUnstakeMode.BestRate
                     ELSE ApiLiquidUnstakeMode.Instant
             params == buildLiquidStakingWithdraw(network, WalletAddress, amount, mode)
         IN [ transfer |-> Transfer(params.toAddress, params.amount, NoAddress, params.payload,
                                    Undefined),
              toAddress |-> params.toAddress, slug |-> TONCOIN.slug ]
    [] state.type = "jetton" ->
         [ transfer |-> Transfer(state.stakeWalletAddress, TON_GAS.unstakeJettons, NoAddress,
                                 buildJettonUnstakePayload(amount, TRUE), Undefined),
           toAddress |-> state.stakeWalletAddress, slug |-> TONCOIN.slug ]
    [] state.type = "ethena" ->
         [ transfer |-> Transfer(TON_TSUSDE.tokenAddress, amount, TON_TSUSDE.tokenAddress,
                                 NoPayload, TON_GAS.unstakeEthenaForward),
           toAddress |-> TON_TSUSDE.tokenAddress, slug |-> TON_TSUSDE.slug ]

\* submitUnstake up to its call of submitGasfullTransfer: [transfer, toAddress, slug]
UnstakeTransfer(network, amount, state) ==
  CASE state.type = "nominators" ->
         LET toAddress == toBase64Address(state.pool, TRUE, network)
         IN [ transfer |-> Transfer(toAddress, TON_GAS.unstakeNominators, NoAddress,
                                    CommentPayload(UNSTAKE_COMMENT), Undefined),
              toAddress |-> toAddress, slug |-> TONCOIN.slug ]
    [] state.type = "liquid" ->
         LET mode == IF state.instantAvailable = 0 THEN ApiLiquidUnstakeMode.BestRate
                     ELSE ApiLiquidUnstakeMode.Default
             params == buildLiquidStakingWithdraw(network, WalletAddress, amount, mode)
         IN [ transfer |-> Transfer(params.toAddress, params.amount, NoAddress, params.payload,
                                    Undefined),
              toAddress |-> params.toAddress, slug |-> TONCOIN.slug ]
    [] state.type = "jetton" ->
         [ transfer |-> Transfer(state.stakeWalletAddress, TON_GAS.unstakeJettons, NoAddress,
                                 buildJettonUnstakePayload(amount, TRUE), Undefined),
           toAddress |-> state.stakeWalletAddress, slug |-> TONCOIN.slug ]
    [] state.type = "ethena" ->
         [ transfer |-> Transfer(TON_TSUSDE.tokenAddress, amount, TON_TSUSDE.tokenAddress,
                                 NoPayload, TON_GAS.unstakeEthenaForward),
           toAddress |-> TON_TSUSDE.tokenAddress, slug |-> TON_TSUSDE.slug ]

\* ./util/tonCore buildJettonClaimPayload
buildJettonClaimPayload(poolWallets) == [type |-> "jettonClaim", poolWallets |-> poolWallets]

\* submitTokenStakingClaim up to its call of submitGasfullTransfer
ClaimTransfer(state) ==
  [ transfer |-> Transfer(state.stakeWalletAddress, TON_GAS.claimJettons, NoAddress,
                          buildJettonClaimPayload(state.poolWallets), Undefined),
    toAddress |-> state.stakeWalletAddress ]

\* TsUSDeWallet.transferTimelockedMessage
transferTimelockedMessage(p) ==
  [ type |-> "transferTimelocked", jettonAmount |-> p.jettonAmount, to |-> p.to,
    responseAddress |-> p.responseAddress, forwardTonAmount |-> p.forwardTonAmount ]

\* submitUnstakeEthenaLocked up to its call of submitGasfullTransfer
EthenaLockedTransfer(state) ==
  [ transfer |-> Transfer(state.tsUsdeWalletAddress, TON_GAS.unstakeEthenaLocked, NoAddress,
                          transferTimelockedMessage(
                            [ jettonAmount |-> state.unstakeRequestAmount,
                              to |-> TON_TSUSDE.tokenAddress, responseAddress |-> WalletAddress,
                              forwardTonAmount |-> TON_GAS.unstakeEthenaLockedForward ]),
                          Undefined),
    toAddress |-> state.tsUsdeWalletAddress ]

\* what a submit operation returns for the pipeline's answer `pipe`; c is the call record
SubmitResult(c, pipe) ==
  IF pipe.error /= "none" THEN pipe
  ELSE LET lap == pipe.localActivityParams
       IN CASE c.op = "submitStake" ->
                 [pipe EXCEPT !.localActivityParams = [lap EXCEPT !.toAddress = c.toAddress]]
            [] c.op = "submitUnstake" ->
                 [pipe EXCEPT !.localActivityParams =
                    [lap EXCEPT !.toAddress = c.toAddress, !.slug = c.slug]]
            [] c.op = "submitTokenStakingClaim" ->
                 [pipe EXCEPT !.localActivityParams =
                    [lap EXCEPT !.toAddress = c.toAddress, !.amount = TON_GAS.claimJettons,
                                !.slug = TONCOIN.slug]]
            [] c.op = "submitUnstakeEthenaLocked" ->
                 [pipe EXCEPT !.localActivityParams =
                    [lap EXCEPT !.type = "unstake", !.amount = c.state.unstakeRequestAmount,
                                !.isIncoming = TRUE, !.slug = TON_USDE.slug,
                                !.fromAddress = ETHENA_STAKING_VAULT,
                                !.toAddress = WalletAddress]]

\* variant: every submit operation stamps the cache on success
CacheAfterSubmit_EveryOp(c, pipe, stakedAt, nowMs) ==
  IF pipe.error = "none" THEN nowMs ELSE stakedAt

\* variant: submitStake stamps the cache before it looks at the pipeline's answer
CacheAfterSubmit_BeforeErrorCheck(c, pipe, stakedAt, nowMs) ==
  IF c.op = "submitStake" THEN nowMs ELSE stakedAt

\* the account cache's stakedAt after a submit operation has returned
CacheAfterSubmit(c, pipe, stakedAt, nowMs) ==
  IF c.op = "submitStake" /\ pipe.error = "none" THEN nowMs ELSE stakedAt

\* variant: the allow-list is not consulted
fetchBackendStakingState_NoAllowList(resp, callOk) ==
  IF ~callOk THEN [thrown |-> TRUE]
  ELSE [ thrown |-> FALSE,
         value |-> [resp EXCEPT !.balance = fromDecimal(resp.balance),
                                !.totalProfit = fromDecimal(resp.totalProfit)] ]

\* ------------------------------------------------------ backend trust gate
\* fetchBackendStakingState for the backend's answer `resp` (callOk: callBackendGet returned)
fetchBackendStakingState(resp, callOk) ==
  IF ~callOk THEN [thrown |-> TRUE]
  ELSE IF ~isKnownStakingPool(resp.nominatorsPool.address) THEN [thrown |-> TRUE]
  ELSE [ thrown |-> FALSE,
         value |-> [resp EXCEPT !.balance = fromDecimal(resp.balance),
                                !.totalProfit = fromDecimal(resp.totalProfit)] ]

\* ------------------------------------------------------------------ inputs
Round(s, u) == [start |-> s, unlock |-> u]

JettonPoolToken == Addr(<<"jettonMaster">>)
JettonPeriodToken == Addr(<<"jettonShare">>)

JettonPool ==
  [ pool |-> Addr(<<"jettonPool">>), token |-> JettonPoolToken,
    poolConfig |-> [ tvl |-> 1000,
                     rewardsDeposits |->
                       << [startTime |-> 0, endTime |-> 2, distributionSpeed |-> 1],
                          [startTime |-> 0, endTime |-> 9, distributionSpeed |-> 2],
                          [startTime |-> 2, endTime |-> 9, distributionSpeed |-> 4],
                          [startTime |-> 0, endTime |-> 1, distributionSpeed |-> 8] >> ],
    periods |-> << [token |-> JettonPeriodToken, period |-> 1] >> ]

MkCommonData(rate, collection, ethenaRate, isDisabled, prevRound, round) ==
  [ liquid |-> [ currentRate |-> rate, available |-> 3, collection |-> collection, apy |-> 4,
                 loyaltyApy |-> [gold |-> 5] ],
    prevRound |-> prevRound, round |-> round,
    ethena |-> [rate |-> ethenaRate, apy |-> 6, apyVerified |-> 9, isDisabled |-> isDisabled],
    jettonPools |-> <<JettonPool>> ]

MaxRate == 5
Rates == 1..MaxRate

UnknownPool == Addr(<<"poolX">>)

\* an answer of the backend to GET /staking/state/{address}; balances are decimals
MkPoolResponse(type, shouldUseNominators, pool, start, end, stakedAt, unstakeRequest, isVerified) ==
  [ fetched |-> TRUE, type |-> type, shouldUseNominators |-> shouldUseNominators,
    nominatorsPool |-> [address |-> pool, apy |-> 3, start |-> start, end |-> end],
    balance |-> 3, totalProfit |-> 1, stakedAt |-> stakedAt,
    liquidUnstakeRequestAmount |-> unstakeRequest, isVerified |-> isVerified,
    loyaltyType |-> IF type = "liquid" THEN "gold" ELSE "none" ]

MkResponse(type, shouldUseNominators, pool, stakedAt, unstakeRequest, isVerified) ==
  MkPoolResponse(type, shouldUseNominators, pool, 1, 3, stakedAt, unstakeRequest, isVerified)

NoBackendState == [fetched |-> FALSE]

LiquidSlug == buildTokenSlug("ton", LIQUID_JETTON)
JettonSlug == buildTokenSlug("ton", JettonPoolToken)
JettonShareSlug == buildTokenSlug("ton", JettonPeriodToken)

Other == Addr(<<"other">>)

Nominator(address, amount, pending, withdrawRequested) ==
  [ address |-> address, amount |-> amount, pendingDepositAmount |-> pending,
    withdrawRequested |-> withdrawRequested ]

NominatorLists ==
  { <<>>, <<Nominator(Other, 1, 0, FALSE), Nominator(WalletAddress, 1, 1, FALSE)>>,
    <<Nominator(WalletAddress, 2, 0, TRUE)>> }

WalletDatas ==
  { [ present |-> TRUE, jettonBalance |-> 2,
      rewards |-> (TokenWallet(JettonPool.pool, JettonPool.token) :> 1) ] }

TimeLocks == { [lockedUsdeBalance |-> 0, unlockTime |-> 0], [lockedUsdeBalance |-> 2, unlockTime |-> 3] }

\* the inputs of the aggregation and submit runs
AggCommonData ==
  { MkCommonData(r, TRUE, r, d, Round(0, 2), Round(2, 4)) : r \in {2, MaxRate}, d \in BOOLEAN }

Responses ==
  { MkResponse(t, su, p, sa, 1, "undefined") :
      t \in {"liquid", "nominators"}, su \in BOOLEAN, p \in {Addr(<<"poolA">>), UnknownPool},
      sa \in {Undefined, MaxTime - 2} }
  \cup { MkResponse("liquid", FALSE, Addr(<<"poolA">>), Undefined, 1, v) : v \in {"true", "false"} }

BalanceMaps ==
  { <<>>,
    (LiquidSlug :> 2),
    (JettonSlug :> 1) @@ (TON_USDE.slug :> 1),
    (LiquidSlug :> 2) @@ (JettonSlug :> 1) @@ (JettonShareSlug :> 1)
      @@ (TON_USDE.slug :> 1) @@ (TON_TSUSDE.slug :> 2) }

SubmitAmounts == {TON_GAS.stakeNominators - 1, TON_GAS.stakeNominators}

\* ------------------------------------------------------------------- state
VARIABLES
  network,               \* the network of the account (parseAccountId)
  simulateLongUnstaking, \* getDevSettings().simulateLongUnstaking
  now,                   \* Date.now()
  cacheStakedAt,         \* getAccountCache(accountId, address).stakedAt
  commonCache,           \* getStakingCommonCache()
  backendState,          \* the ApiBackendStakingState last fetched
  lastFetch,             \* the last fetchBackendStakingState call and how it ended
  agg,                   \* the getStakingStates call in flight, or its outcome
  chk,                   \* the last checkStakeDraft / checkUnstakeDraft call
  sub,                   \* the submit call in flight, or its outcome
  win                    \* the last getLiquidStakingTimeRange evaluation

vars == << network, simulateLongUnstaking, now, cacheStakedAt, commonCache, backendState,
           lastFetch, agg, chk, sub, win >>

Idle == [pc |-> "idle"]

\* ------------------------------------------------------------ environment
\* time passes
Tick ==
  /\ now < MaxTime
  /\ now' = now + 1
  /\ UNCHANGED << network, simulateLongUnstaking, cacheStakedAt, commonCache, backendState,
                  lastFetch, agg, chk, sub, win >>

\* getBackendStakingState / fetchBackendStakingState; the caller keeps the state it returns
Fetch(resp, callOk) ==
  LET r == fetchBackendStakingState(resp, callOk)
  IN /\ lastFetch' = [ called |-> TRUE, callOk |-> callOk,
                       pool |-> resp.nominatorsPool.address, thrown |-> r.thrown ]
     /\ backendState' = IF r.thrown THEN backendState ELSE r.value
     /\ UNCHANGED << network, simulateLongUnstaking, now, cacheStakedAt, commonCache, agg, chk,
                     sub, win >>

\* ------------------------------------------------------ getStakingStates
NewTask(kind, step) ==
  [ kind |-> kind, step |-> step, walletData |-> NoWalletData, nominators |-> <<>>,
    timeLock |-> [lockedUsdeBalance |-> 0, unlockTime |-> 0] ]

\* the promises getStakingStates pushes, in order
SpawnedTasks(commonData, bs, balances) ==
  LET jetton == SelectSeq(commonData.jettonPools,
                          LAMBDA pc : buildTokenSlug("ton", pc.token) \in DOMAIN balances)
      jettonTasks == [i \in 1..Len(jetton) |-> NewTask("jetton", "stakeWallet")]
      nominatorsTasks == IF bs.shouldUseNominators \/ bs.type = "nominators"
                         THEN <<NewTask("nominators", "list")>> ELSE <<>>
      ethenaTasks == IF TON_USDE.slug \in DOMAIN balances
                        /\ (~commonData.ethena.isDisabled \/ DEBUG)
                     THEN <<NewTask("ethena", "resolve")>> ELSE <<>>
  IN jettonTasks \o nominatorsTasks \o ethenaTasks

\* the StakingStateOptions of a getStakingStates call
Options(n, bs, commonData, balances) ==
  [network |-> n, backendState |-> bs, commonData |-> commonData, balances |-> balances]

\* getStakingStates up to its await: the builders run to their first read, and
\* buildLiquidState runs to its end
StartAggregation(commonData, balances) ==
  /\ agg.pc /= "running"
  /\ backendState.fetched
  /\ LET o == Options(network, backendState, commonData, balances)
     IN agg' = [ pc |-> "running", o |-> o, startedAt |-> now, cacheSeen |-> cacheStakedAt,
                 liquid |-> buildLiquidState(o, now, cacheStakedAt, simulateLongUnstaking),
                 tasks |-> SpawnedTasks(commonData, backendState, balances),
                 states |-> <<>> ]
  /\ UNCHANGED << network, simulateLongUnstaking, now, cacheStakedAt, commonCache, backendState,
                  lastFetch, chk, sub, win >>

AggUnchanged ==
  UNCHANGED << network, simulateLongUnstaking, now, cacheStakedAt, commonCache, backendState,
               lastFetch, chk, sub, win >>

Pending(i, kind, step) ==
  /\ agg.pc = "running"
  /\ i \in 1..Len(agg.tasks)
  /\ agg.tasks[i].kind = kind
  /\ agg.tasks[i].step = step

\* buildJettonState: getJettonPoolStakeWallet answers
JettonStakeWalletRead(i, ok) ==
  /\ Pending(i, "jetton", "stakeWallet")
  /\ agg' = [agg EXCEPT !.tasks[i].step =
               IF ~ok THEN "rejected"
               ELSE IF JettonShareSlug \in DOMAIN agg.o.balances THEN "storage"
               ELSE "fulfilled"]
  /\ AggUnchanged

\* buildJettonState: stakeWallet.getStorageData().catch(() => undefined) answers
JettonStorageRead(i, ok, walletData) ==
  /\ Pending(i, "jetton", "storage")
  /\ agg' = IF ok THEN [agg EXCEPT !.tasks[i].step = "poolWallet",
                                   !.tasks[i].walletData = walletData]
            ELSE [agg EXCEPT !.tasks[i].step = "fulfilled"]
  /\ AggUnchanged

\* buildJettonState: resolveTokenWalletAddress answers
JettonPoolWalletResolve(i, ok) ==
  /\ Pending(i, "jetton", "poolWallet")
  /\ agg' = IF ok THEN [agg EXCEPT !.tasks[i].step = "fulfilled"]
            ELSE [agg EXCEPT !.tasks[i].step = "rejected",
                             !.tasks[i].walletData = NoWalletData]
  /\ AggUnchanged

\* buildNominatorsState: nominatorPool.getListNominators answers
NominatorsListRead(i, ok, nominators) ==
  /\ Pending(i, "nominators", "list")
  /\ agg' = IF ok THEN [agg EXCEPT !.tasks[i].step = "fulfilled",
                                   !.tasks[i].nominators = nominators]
            ELSE [agg EXCEPT !.tasks[i].step = "rejected"]
  /\ AggUnchanged

\* buildEthenaState: resolveTokenWalletAddress answers
EthenaWalletResolve(i, ok) ==
  /\ Pending(i, "ethena", "resolve")
  /\ agg' = [agg EXCEPT !.tasks[i].step = IF ok THEN "timeLock" ELSE "rejected"]
  /\ AggUnchanged

\* buildEthenaState: tsUsdeWallet.getTimeLockData answers
EthenaTimeLockRead(i, ok, timeLock) ==
  /\ Pending(i, "ethena", "timeLock")
  /\ agg' = IF ok THEN [agg EXCEPT !.tasks[i].step = "fulfilled",
                                   !.tasks[i].timeLock = timeLock]
            ELSE [agg EXCEPT !.tasks[i].step = "rejected"]
  /\ AggUnchanged

\* the state a fulfilled builder returns
TaskState(o, startedAt, task) ==
  CASE task.kind = "jetton" -> buildJettonState(o, JettonPool, startedAt, task.walletData)
    [] task.kind = "nominators" -> buildNominatorsState(o, task.nominators)
    [] task.kind = "ethena" -> buildEthenaState(o, task.timeLock)

\* variant: the liquid state is listed only for an account that holds the liquid jetton
JoinOutcome_LiquidIfHeld(a) ==
  IF \E i \in 1..Len(a.tasks) : a.tasks[i].step = "rejected"
  THEN [a EXCEPT !.pc = "failed"]
  ELSE [a EXCEPT !.pc = "done",
                 !.states = (IF a.liquid.tokenBalance /= 0 THEN <<a.liquid>> ELSE <<>>)
                            \o [i \in 1..Len(a.tasks) |-> TaskState(a.o, a.startedAt, a.tasks[i])]]

\* what `[buildLiquidState(options), ...await Promise.all(promises)]` settles to
JoinOutcome(a) ==
  IF \E i \in 1..Len(a.tasks) : a.tasks[i].step = "rejected"
  THEN [a EXCEPT !.pc = "failed"]
  ELSE [a EXCEPT !.pc = "done",
                 !.states = <<a.liquid>>
                            \o [i \in 1..Len(a.tasks) |-> TaskState(a.o, a.startedAt, a.tasks[i])]]

\* Promise.all settles: every promise fulfilled, or one rejected
Join ==
  /\ agg.pc = "running"
  /\ \/ \A i \in 1..Len(agg.tasks) : agg.tasks[i].step = "fulfilled"
     \/ \E i \in 1..Len(agg.tasks) : agg.tasks[i].step = "rejected"
  /\ agg' = JoinOutcome(agg)
  /\ AggUnchanged

\* ------------------------------------------------------ submit operations
NoResult == [error |-> "pending"]

SubUnchanged ==
  UNCHANGED << network, simulateLongUnstaking, now, commonCache, backendState, lastFetch, agg,
               chk, win >>

\* a submit operation up to its await of submitGasfullTransfer
CallOf(op, amount, state) ==
  LET t == CASE op = "submitStake" -> StakeTransfer(network, amount, state) @@ [slug |-> TONCOIN.slug]
             [] op = "submitUnstake" -> UnstakeTransfer(network, amount, state)
             [] op = "submitTokenStakingClaim" -> ClaimTransfer(state) @@ [slug |-> TONCOIN.slug]
             [] op = "submitUnstakeEthenaLocked" -> EthenaLockedTransfer(state) @@ [slug |-> TON_USDE.slug]
  IN [ pc |-> "awaiting", op |-> op, amount |-> amount, state |-> state,
       transfer |-> t.transfer, toAddress |-> t.toAddress, slug |-> t.slug,
       pipe |-> NoResult, result |-> NoResult ]

\* the operation throws before it reaches the pipeline
ThrownCall(op, amount, state) ==
  [ pc |-> "thrown", op |-> op, amount |-> amount, state |-> state, transfer |-> NoTransfer,
    toAddress |-> NoAddress, slug |-> TONCOIN.slug, pipe |-> NoResult, result |-> NoResult ]

\* a state the caller holds: one of the states the last aggregation returned
HeldStates == IF agg.pc = "done" THEN {agg.states[i] : i \in 1..Len(agg.states)} ELSE {}

SubmitStake(amount, state) ==
  /\ sub.pc = "idle"
  /\ sub' = CallOf("submitStake", amount, state)
  /\ UNCHANGED cacheStakedAt
  /\ SubUnchanged

\* resolveOk: resolveTokenWalletAddress of buildLiquidStakingWithdraw answers
SubmitUnstake(amount, state, resolveOk) ==
  /\ sub.pc = "idle"
  /\ sub' = IF state.type = "liquid" /\ ~resolveOk
            THEN ThrownCall("submitUnstake", amount, state)
            ELSE CallOf("submitUnstake", amount, state)
  /\ UNCHANGED cacheStakedAt
  /\ SubUnchanged

\* variant: the claim is submitted whether or not the pool wallets are known
SubmitTokenStakingClaim_WithoutPoolWallets(state) ==
  /\ sub.pc = "idle"
  /\ state.type = "jetton"
  /\ sub' = CallOf("submitTokenStakingClaim", TON_GAS.claimJettons, state)
  /\ UNCHANGED cacheStakedAt
  /\ SubUnchanged

SubmitTokenStakingClaim(state) ==
  /\ sub.pc = "idle"
  /\ state.type = "jetton"
  /\ sub' = IF ~state.hasPoolWallets
            THEN ThrownCall("submitTokenStakingClaim", TON_GAS.claimJettons, state)
            ELSE CallOf("submitTokenStakingClaim", TON_GAS.claimJettons, state)
  /\ UNCHANGED cacheStakedAt
  /\ SubUnchanged

SubmitUnstakeEthenaLocked(state) ==
  /\ sub.pc = "idle"
  /\ state.type = "ethena"
  /\ sub' = CallOf("submitUnstakeEthenaLocked", state.unstakeRequestAmount, state)
  /\ UNCHANGED cacheStakedAt
  /\ SubUnchanged

\* submitGasfullTransfer answers `pipe`, and the submit operation runs to its end
SubmitReturn(pipe) ==
  /\ sub.pc = "awaiting"
  /\ sub' = [sub EXCEPT !.pc = "returned", !.pipe = pipe, !.result = SubmitResult(sub, pipe)]
  /\ cacheStakedAt' = CacheAfterSubmit(sub, pipe, cacheStakedAt, now)
  /\ SubUnchanged

\* the caller has consumed the outcome of the submit operation
SubmitDone ==
  /\ sub.pc \in {"returned", "thrown"}
  /\ sub' = Idle
  /\ UNCHANGED cacheStakedAt
  /\ SubUnchanged

PipelineAnswers(transfer) ==
  {SubmitError("PipelineError"), SubmitOk("tx", PipelineParams(transfer))}

\* the answers the pipeline may give to the call in flight
AwaitedAnswers == IF sub.pc = "awaiting" THEN PipelineAnswers(sub.transfer) ELSE {}

\* --------------------------------------------------------- check operations
NoCheck == [op |-> "none"]

ChkUnchanged ==
  UNCHANGED << network, simulateLongUnstaking, now, cacheStakedAt, commonCache, backendState,
               lastFetch, agg, sub, win >>

CheckStakeDraft(amount, state, pipe) ==
  LET r == checkStakeDraft(amount, state, pipe)
  IN /\ chk.op = "none"
     /\ chk' = [ op |-> "checkStakeDraft", amount |-> amount, state |-> state, thrown |-> FALSE,
                 draft |-> r.draft, pipe |-> pipe, result |-> r.result,
                 tokenAmount |-> Undefined, rate |-> 0 ]
     /\ ChkUnchanged

\* resolveOk: resolveTokenWalletAddress of buildLiquidStakingWithdraw answers
CheckUnstakeDraft(amount, state, pipe, resolveOk) ==
  LET r == checkUnstakeDraft(network, amount, state, commonCache, pipe)
      rate == IF state.type = "ethena" THEN EthenaRate(network, commonCache)
              ELSE commonCache.liquid.currentRate
  IN /\ chk.op = "none"
     /\ chk' = IF state.type = "liquid" /\ ~resolveOk
               THEN [ op |-> "checkUnstakeDraft", amount |-> amount, state |-> state,
                      thrown |-> TRUE, draft |-> NoTransfer, pipe |-> pipe,
                      result |-> DraftError("thrown"), tokenAmount |-> Undefined, rate |-> rate ]
               ELSE [ op |-> "checkUnstakeDraft", amount |-> amount, state |-> state,
                      thrown |-> FALSE, draft |-> r.draft, pipe |-> pipe, result |-> r.result,
                      tokenAmount |-> r.tokenAmount, rate |-> rate ]
     /\ ChkUnchanged

\* the draft is discarded: the caller has consumed the outcome of the check
CheckDone ==
  /\ chk.op /= "none"
  /\ chk' = NoCheck
  /\ ChkUnchanged

\* the common-data cache is refreshed out of band
RefreshCommonCache(commonData) ==
  /\ commonCache' = commonData
  /\ UNCHANGED << network, simulateLongUnstaking, now, cacheStakedAt, backendState, lastFetch,
                  agg, chk, sub, win >>

DraftAnswers == {DraftError("PipelineError"), DraftOk(Undefined)} \cup {DraftOk(f) : f \in 0..MaxFee}

\* ------------------------------------------------------------ specifications
NoWindow == [evaluated |-> FALSE]

DefaultCommonData == MkCommonData(2, TRUE, 2, FALSE, Round(0, 2), Round(2, 4))

\* the backend states fetchBackendStakingState returns for the answers of the backend
FetchedStates ==
  { fetchBackendStakingState(resp, TRUE).value :
      resp \in {r \in Responses : ~fetchBackendStakingState(r, TRUE).thrown} }

Quiet ==
  /\ simulateLongUnstaking = FALSE
  /\ commonCache = DefaultCommonData
  /\ lastFetch = [called |-> FALSE]
  /\ agg = Idle
  /\ chk = NoCheck
  /\ sub = Idle
  /\ win = NoWindow

\* The aggregation of one account whose backend state has been fetched
Init ==
  /\ network \in Networks
  /\ now = 0
  /\ cacheStakedAt = Undefined
  /\ backendState \in FetchedStates
  /\ Quiet

Next ==
  \/ Tick
  \/ \E commonData \in AggCommonData, balances \in BalanceMaps : StartAggregation(commonData, balances)
  \/ \E i \in 1..3, ok \in BOOLEAN : JettonStakeWalletRead(i, ok)
  \/ \E i \in 1..3, ok \in BOOLEAN, walletData \in WalletDatas : JettonStorageRead(i, ok, walletData)
  \/ \E i \in 1..3, ok \in BOOLEAN : JettonPoolWalletResolve(i, ok)
  \/ \E i \in 1..3, ok \in BOOLEAN, nominators \in NominatorLists : NominatorsListRead(i, ok, nominators)
  \/ \E i \in 1..3, ok \in BOOLEAN : EthenaWalletResolve(i, ok)
  \/ \E i \in 1..3, ok \in BOOLEAN, timeLock \in TimeLocks : EthenaTimeLockRead(i, ok, timeLock)
  \/ Join

Spec == Init /\ [][Next]_vars

\* ---------------------------------------------- the states a caller may hold
SampleOptions(n) ==
  { Options(n, bs, cd, bal) : bs \in FetchedStates, cd \in AggCommonData, bal \in BalanceMaps }

\* the states the builders return for the sample inputs on network n
StatesOn(n) ==
  { buildLiquidState(o, t, Undefined, FALSE) : o \in SampleOptions(n), t \in {0, MaxTime} }
  \cup { buildNominatorsState(o, l) : o \in SampleOptions(n), l \in NominatorLists }
  \cup { buildJettonState(o, JettonPool, 0, wd) :
           o \in SampleOptions(n), wd \in WalletDatas \cup {NoWalletData} }
  \cup { buildEthenaState(o, tl) : o \in SampleOptions(n), tl \in TimeLocks }

MainnetStates == StatesOn("mainnet")

TestnetStates == StatesOn("testnet")

SampleStates == IF network = "testnet" THEN TestnetStates ELSE MainnetStates

\* the states a caller may pass to an operation that is free to start
CallerStates(free) == IF free THEN SampleStates ELSE {}

\* ---------------------------------------------------- submit specification
InitSubmit ==
  /\ network \in Networks
  /\ now = 0
  /\ cacheStakedAt = Undefined
  /\ backendState = NoBackendState
  /\ Quiet

NextSubmit ==
  \/ Tick
  \/ \E amount \in SubmitAmounts, state \in CallerStates(sub.pc = "idle") :
       SubmitStake(amount, state)
  \/ \E amount \in SubmitAmounts, state \in CallerStates(sub.pc = "idle"), resolveOk \in BOOLEAN :
       SubmitUnstake(amount, state, resolveOk)
  \/ \E state \in CallerStates(sub.pc = "idle") : SubmitTokenStakingClaim(state)
  \/ \E state \in CallerStates(sub.pc = "idle") : SubmitUnstakeEthenaLocked(state)
  \/ \E pipe \in AwaitedAnswers : SubmitReturn(pipe)
  \/ SubmitDone

SpecSubmit == InitSubmit /\ [][NextSubmit]_vars

\* ----------------------------------------------------- check specification
CheckCommonData ==
  { MkCommonData(r, TRUE, er, FALSE, Round(0, 2), Round(2, 4)) : r \in Rates, er \in {1, MaxRate} }

Amounts == 0..MaxAmount

InitCheck ==
  /\ network \in Networks
  /\ now = 0
  /\ cacheStakedAt = Undefined
  /\ backendState = NoBackendState
  /\ simulateLongUnstaking = FALSE
  /\ commonCache \in CheckCommonData
  /\ lastFetch = [called |-> FALSE]
  /\ agg = Idle
  /\ chk = NoCheck
  /\ sub = Idle
  /\ win = NoWindow

NextCheck ==
  \/ \E commonData \in CheckCommonData : RefreshCommonCache(commonData)
  \/ \E amount \in Amounts, state \in CallerStates(chk.op = "none"), pipe \in DraftAnswers :
       CheckStakeDraft(amount, state, pipe)
  \/ \E amount \in Amounts, state \in CallerStates(chk.op = "none"), pipe \in DraftAnswers,
        resolveOk \in BOOLEAN :
       CheckUnstakeDraft(amount, state, pipe, resolveOk)
  \/ CheckDone

SpecCheck == InitCheck /\ [][NextCheck]_vars

\* ------------------------------------------------ trust gate specification
GateResponses ==
  { MkResponse(t, su, p, sa, 1, "undefined") :
      t \in {"liquid", "nominators"}, su \in BOOLEAN, p \in KnownPools \cup {UnknownPool},
      sa \in {Undefined, MaxTime - 2} }

InitGate ==
  /\ network \in Networks
  /\ now = 0
  /\ cacheStakedAt = Undefined
  /\ backendState = NoBackendState
  /\ Quiet

NextGate ==
  \/ \E resp \in GateResponses, callOk \in BOOLEAN : Fetch(resp, callOk)
  \/ \E balances \in {<<>>, (LiquidSlug :> 2)} : StartAggregation(DefaultCommonData, balances)
  \/ \E ok \in BOOLEAN, nominators \in NominatorLists : NominatorsListRead(1, ok, nominators)
  \/ Join

SpecGate == InitGate /\ [][NextGate]_vars

\* -------------------------------------------- round / window specification
MaxRound == 3

RangeCommonData ==
  { MkCommonData(2, c, 2, FALSE, Round(ps, pu), Round(cs, cu)) :
      c \in BOOLEAN, ps \in 0..MaxRound, pu \in 0..MaxRound, cs \in 0..MaxRound, cu \in 0..MaxRound }

RangeResponses ==
  { MkPoolResponse(t, TRUE, Addr(<<"poolA">>), start, end, Undefined, 1, "undefined") :
      t \in {"liquid", "nominators"}, start \in 0..MaxRound, end \in 0..MaxRound }

WinUnchanged ==
  UNCHANGED << network, simulateLongUnstaking, now, cacheStakedAt, commonCache, backendState,
               lastFetch, agg, chk, sub >>

\* getLiquidStakingTimeRange is evaluated on a common-data snapshot
ResolveWindow(commonData) ==
  /\ ~win.evaluated
  /\ win' = [ evaluated |-> TRUE, kind |-> "liquid", prevRound |-> commonData.prevRound,
              round |-> commonData.round, collection |-> commonData.liquid.collection,
              at |-> now, range |-> getLiquidStakingTimeRange(commonData, now) ]
  /\ WinUnchanged

\* buildNominatorsState is evaluated on a fetched backend state
ResolveNominators(resp, nominators) ==
  LET bs == fetchBackendStakingState(resp, TRUE).value
      st == buildNominatorsState(Options(network, bs, DefaultCommonData, <<>>), nominators)
  IN /\ ~win.evaluated
     /\ win' = [evaluated |-> TRUE, kind |-> "nominators", pool |-> bs.nominatorsPool, state |-> st]
     /\ WinUnchanged

\* the caller has consumed the window
WindowDone ==
  /\ win.evaluated
  /\ win' = NoWindow
  /\ WinUnchanged

InitRange ==
  /\ network \in Networks
  /\ now = 0
  /\ cacheStakedAt = Undefined
  /\ backendState = NoBackendState
  /\ Quiet

NextRange ==
  \/ Tick
  \/ \E commonData \in RangeCommonData : ResolveWindow(commonData)
  \/ \E resp \in RangeResponses, nominators \in NominatorLists : ResolveNominators(resp, nominators)
  \/ WindowDone

SpecRange == InitRange /\ [][NextRange]_vars

\* ----------------------------------- staked-at specification (cache and clock)
TimeResponses ==
  { MkResponse("liquid", FALSE, Addr(<<"poolA">>), sa, 1, "undefined") :
      sa \in {Undefined} \cup 0..MaxTime }

TimeOptions == Options("mainnet", CHOOSE bs \in FetchedStates : TRUE, DefaultCommonData, <<>>)

\* the jetton and ethena states the caller holds beside the aggregated ones
OtherHeldStates ==
  { buildJettonState(TimeOptions, JettonPool, 0, CHOOSE wd \in WalletDatas : TRUE),
    buildEthenaState(TimeOptions, CHOOSE tl \in TimeLocks : tl.lockedUsdeBalance > 0) }

TimeStates(free) == IF free THEN HeldStates \cup OtherHeldStates ELSE {}

InitTime ==
  /\ network = "mainnet"
  /\ now = 0
  /\ cacheStakedAt = Undefined
  /\ backendState \in { fetchBackendStakingState(r, TRUE).value : r \in TimeResponses }
  /\ Quiet

NextTime ==
  \/ Tick
  \/ StartAggregation(DefaultCommonData, (LiquidSlug :> 2))
  \/ Join
  \/ \E state \in TimeStates(sub.pc = "idle") : SubmitStake(TON_GAS.stakeNominators, state)
  \/ \E state \in TimeStates(sub.pc = "idle") : SubmitUnstake(TON_GAS.stakeNominators, state, TRUE)
  \/ \E state \in TimeStates(sub.pc = "idle") : SubmitTokenStakingClaim(state)
  \/ \E state \in TimeStates(sub.pc = "idle") : SubmitUnstakeEthenaLocked(state)
  \/ \E pipe \in AwaitedAnswers : SubmitReturn(pipe)
  \/ SubmitDone

SpecTime == InitTime /\ [][NextTime]_vars

\* ------------------------------------------------------------------ claims

\* C1: in getStakingStates every per-variant build is joined, and a failed on-chain read of
\* one variant never makes the aggregation fail: the call always returns its list.
C1_AggregationNeverFails == agg.pc /= "failed"

\* C2: fetchBackendStakingState throws whenever the backend's nominatorsPool.address is not
\* in the allow-list, so neither the kept backend state nor any aggregation (its options, its
\* nominators state) carries a pool address outside the allow-list.
C2_UnknownPoolRejected ==
  /\ (lastFetch.called /\ lastFetch.pool \notin KnownPools) => lastFetch.thrown
  /\ backendState.fetched => backendState.nominatorsPool.address \in KnownPools
  /\ agg.pc /= "idle" => agg.o.backendState.nominatorsPool.address \in KnownPools
  /\ agg.pc = "done" =>
       \A i \in 1..Len(agg.states) :
         agg.states[i].type = "nominators" => agg.states[i].pool \in KnownPools

\* C2 witness: the backend answered with a pool outside the allow-list and the fetch threw
C2_Witness ==
  /\ lastFetch.called /\ lastFetch.callOk
  /\ lastFetch.pool \notin KnownPools
  /\ lastFetch.thrown

\* C3: checkStakeDraft of a nominators state with an amount below TON_GAS.stakeNominators
\* returns InvalidAmount, on every network, and never calls checkTransactionDraft.
C3_BelowMinimumIsInvalidAmount ==
  ( /\ chk.op = "checkStakeDraft"
    /\ chk.state.type = "nominators"
    /\ chk.amount < TON_GAS.stakeNominators )
  => /\ chk.result.error = "InvalidAmount"
     /\ chk.result.fee = Undefined
     /\ ~chk.draft.called

\* C3 witness: a nominators stake one minor unit below the minimum was checked on testnet
C3_Witness ==
  /\ chk.op = "checkStakeDraft"
  /\ chk.state.type = "nominators"
  /\ chk.amount = TON_GAS.stakeNominators - 1
  /\ network = "testnet"

\* C4: submitStake of a nominators state with an amount below the minimum is rejected with
\* InvalidAmount: no transfer reaches the pipeline and stakedAt is not written.
C4_SubmitBelowMinimumRejected ==
  ( /\ sub.pc /= "idle"
    /\ sub.op = "submitStake"
    /\ sub.state.type = "nominators"
    /\ sub.amount < TON_GAS.stakeNominators )
  => /\ ~sub.transfer.called
     /\ sub.pc /= "awaiting"
     /\ cacheStakedAt = Undefined

\* C5: for a nominators state, an amount at or above the minimum and every fee >= 0 the
\* pipeline returns, checkStakeDraft drafts to the state's pool with amount + G attached and
\* returns fee = G + networkFee, G = TON_GAS.stakeNominators.
C5_NominatorsDraftAndFee ==
  ( /\ chk.op = "checkStakeDraft"
    /\ chk.state.type = "nominators"
    /\ chk.amount >= TON_GAS.stakeNominators
    /\ chk.pipe.error = "none"
    /\ chk.pipe.fee /= Undefined )
  => /\ chk.draft.called
     /\ chk.draft.toAddress = chk.state.pool
     /\ chk.draft.amount = chk.amount + TON_GAS.stakeNominators
     /\ chk.result.fee = TON_GAS.stakeNominators + chk.pipe.fee

\* C6: checkUnstakeDraft of a liquid or ethena state with amount = state.balance returns
\* tokenAmount = state.tokenBalance whatever the cached rate is; the division by the rate
\* is used only when the amount differs from state.balance.
C6_FullBalanceIsExact ==
  ( /\ chk.op = "checkUnstakeDraft"
    /\ ~chk.thrown
    /\ chk.state.type \in {"liquid", "ethena"} )
  => IF chk.amount = chk.state.balance
     THEN chk.tokenAmount = chk.state.tokenBalance
     ELSE chk.tokenAmount = (chk.amount * ONE_TON) \div ((chk.rate * ONE_TON) \div DecimalDen)

\* C6 witness: a full-balance liquid unstake at a rate where the division would give
\* another token amount
C6_Witness ==
  /\ chk.op = "checkUnstakeDraft"
  /\ ~chk.thrown
  /\ chk.state.type = "liquid"
  /\ chk.amount = chk.state.balance
  /\ chk.state.tokenBalance > 0
  /\ (chk.amount * ONE_TON) \div ((chk.rate * ONE_TON) \div DecimalDen) /= chk.state.tokenBalance

\* a submit operation returns to its caller in this step
SubmitReturns == sub.pc = "awaiting" /\ sub'.pc = "returned"

\* C7 as stated: every submit operation, when the pipeline reports success, writes the
\* stakedAt hint into the account cache before it returns.
C7_EverySubmitStamps ==
  [][ (SubmitReturns /\ sub'.pipe.error = "none") => cacheStakedAt' = now ]_vars

\* C7 as amended: on success submitStake writes stakedAt = Date.now() before it returns;
\* submitUnstake, submitTokenStakingClaim and submitUnstakeEthenaLocked leave the cache as
\* it is and only attach localActivityParams (the destination) to the result they return.
C7_OnlySubmitStakeStamps ==
  [][ (SubmitReturns /\ sub'.pipe.error = "none") =>
        IF sub.op = "submitStake"
        THEN cacheStakedAt' = now
        ELSE /\ cacheStakedAt' = cacheStakedAt
             /\ sub'.result.localActivityParams.toAddress =
                  IF sub.op = "submitUnstakeEthenaLocked" THEN WalletAddress ELSE sub.toAddress
    ]_vars

\* C7 witness: an unstake was submitted with success at a time after the last stake
C7_Witness ==
  /\ sub.pc = "returned"
  /\ sub.op = "submitUnstake"
  /\ sub.pipe.error = "none"
  /\ cacheStakedAt /= Undefined
  /\ cacheStakedAt < now

\* C8: the cached stakedAt is never replaced by an older value, and buildLiquidState uses
\* the larger of the cached and the backend stakedAt (0 when absent): the liquid state's
\* instantAvailable is the pool's available amount exactly when more than the validation
\* period has passed since that larger value.
C8_StakedAtIsMaximum ==
  [][ /\ cacheStakedAt' >= cacheStakedAt
      /\ agg'.pc \in {"running", "done"} =>
           LET cached == IF agg'.cacheSeen = Undefined THEN 0 ELSE agg'.cacheSeen
               backend == IF agg'.o.backendState.stakedAt = Undefined THEN 0
                          ELSE agg'.o.backendState.stakedAt
               stakedAt == IF cached >= backend THEN cached ELSE backend
           IN agg'.liquid.instantAvailable =
                IF agg'.startedAt - stakedAt > VALIDATION_PERIOD_MS
                THEN agg'.o.commonData.liquid.available ELSE 0
    ]_vars

\* C8 witness: an aggregation ran after a stake newer than the backend's stakedAt, at a time
\* when the backend's value alone would have made the instant withdrawal available
C8_Witness ==
  /\ agg.pc = "done"
  /\ agg.cacheSeen /= Undefined
  /\ agg.o.backendState.stakedAt /= Undefined
  /\ agg.cacheSeen > agg.o.backendState.stakedAt
  /\ agg.startedAt - agg.o.backendState.stakedAt > VALIDATION_PERIOD_MS
  /\ agg.startedAt - agg.cacheSeen <= VALIDATION_PERIOD_MS

\* C9: when the pipeline answers a submit operation with an error, the operation returns
\* that error result as it is and leaves the cached stakedAt as it is.
C9_ErrorPassedThrough ==
  [][ (SubmitReturns /\ sub'.pipe.error /= "none") =>
        /\ sub'.result = sub'.pipe
        /\ cacheStakedAt' = cacheStakedAt
    ]_vars

\* C9 witness: the pipeline answered a submitStake with an error after time had passed
C9_Witness ==
  /\ sub.pc = "returned"
  /\ sub.op = "submitStake"
  /\ sub.pipe.error /= "none"
  /\ now > 0

\* C10: when both rounds of the snapshot have start <= unlock, the window of
\* getLiquidStakingTimeRange has end >= start for every collection flag and time; a
\* nominators state has end >= start when its pool has start <= end.
C10_WindowEndNotBeforeStart ==
  /\ ( /\ win.evaluated /\ win.kind = "liquid"
       /\ win.prevRound.start <= win.prevRound.unlock
       /\ win.round.start <= win.round.unlock )
     => win.range.end >= win.range.start
  /\ ( /\ win.evaluated /\ win.kind = "nominators"
       /\ win.pool.start <= win.pool.end )
     => win.state.end >= win.state.start

\* C10 witness: the window of the previous round, within the grace period with the
\* collection still active, for a snapshot whose current round starts later
C10_Witness ==
  /\ win.evaluated /\ win.kind = "liquid"
  /\ win.prevRound.start <= win.prevRound.unlock
  /\ win.round.start <= win.round.unlock
  /\ win.collection
  /\ win.at > win.prevRound.unlock
  /\ win.at < win.prevRound.unlock + UNSTAKE_TON_GRACE_PERIOD
  /\ win.round.start > win.prevRound.unlock
  /\ win.range.start = win.prevRound.start

\* C11 as stated: getLiquidStakingTimeRange returns the previous round's window while now is
\* between prevRound.unlock and prevRound.unlock + grace with an active collection, and the
\* current round's window once now has reached prevRound.unlock + grace and also whenever
\* the snapshot reports no collection, for every value of now.
C11_NoCollectionAlwaysCurrent ==
  (win.evaluated /\ win.kind = "liquid") =>
    /\ ( /\ win.at >= win.prevRound.unlock
         /\ win.at < win.prevRound.unlock + UNSTAKE_TON_GRACE_PERIOD
         /\ win.collection )
       => win.range = [ start |-> win.prevRound.start,
                        end |-> win.prevRound.unlock + UNSTAKE_TON_GRACE_PERIOD ]
    /\ ( \/ win.at >= win.prevRound.unlock + UNSTAKE_TON_GRACE_PERIOD
         \/ ~win.collection )
       => win.range = [ start |-> win.round.start,
                        end |-> win.round.unlock + UNSTAKE_TON_GRACE_PERIOD ]

\* C11 as amended: the current round is selected once now has reached prevRound.unlock +
\* grace, and strictly inside the grace period (now > prevRound.unlock) when the snapshot
\* reports no collection; in every other case (now <= prevRound.unlock, or inside the grace
\* period with an active collection) the previous round is selected. The window is the
\* selected round's start and its unlock + grace.
C11_RoundSelection ==
  (win.evaluated /\ win.kind = "liquid") =>
    IF \/ win.at >= win.prevRound.unlock + UNSTAKE_TON_GRACE_PERIOD
       \/ (win.at > win.prevRound.unlock /\ ~win.collection)
    THEN win.range = [ start |-> win.round.start,
                       end |-> win.round.unlock + UNSTAKE_TON_GRACE_PERIOD ]
    ELSE win.range = [ start |-> win.prevRound.start,
                       end |-> win.prevRound.unlock + UNSTAKE_TON_GRACE_PERIOD ]

\* C11 witness: no collection is reported and the previous round has not unlocked yet: its
\* window, which differs from the current round's, is returned
C11_Witness ==
  /\ win.evaluated /\ win.kind = "liquid"
  /\ ~win.collection
  /\ win.at <= win.prevRound.unlock
  /\ win.round /= win.prevRound
  /\ win.range.start = win.prevRound.start
  /\ win.range.end = win.prevRound.unlock + UNSTAKE_TON_GRACE_PERIOD
  /\ win.range.start /= win.round.start

\* the states of one type in the list a finished getStakingStates call returned
ReturnedOfType(type) ==
  IF agg.pc = "done"
  THEN { agg.states[i] : i \in { j \in 1..Len(agg.states) : agg.states[j].type = type } }
  ELSE {}

\* C12: an ethena state built for a backend state whose isVerified is undefined, with no
\* active stake (zero balance, nothing pending), reports the verified yield; an ethena state
\* with a non-zero balance reports the verified yield if isVerified is true and the standard
\* yield otherwise, isVerified undefined included.
C12_EthenaYieldTier ==
  \A s \in ReturnedOfType("ethena") :
    LET isVerified == agg.o.backendState.isVerified
        e == agg.o.commonData.ethena
    IN /\ (isVerified = "undefined" /\ s.balance = 0 /\ s.unstakeRequestAmount = 0)
            => s.annualYield = e.apyVerified
       /\ s.balance /= 0
            => s.annualYield = IF isVerified = "true" THEN e.apyVerified ELSE e.apy

\* C12 witness: an unverified account without any ethena stake is shown the verified yield,
\* which is not the standard one
C12_Witness ==
  \E s \in ReturnedOfType("ethena") :
    /\ agg.o.backendState.isVerified = "undefined"
    /\ s.balance = 0 /\ s.unstakeRequestAmount = 0
    /\ s.annualYield = agg.o.commonData.ethena.apyVerified
    /\ s.annualYield /= agg.o.commonData.ethena.apy

\* the deposits of the pool's first reward jetton that are active at second t
ActiveDeposits(pool, t) ==
  { i \in 1..Len(pool.poolConfig.rewardsDeposits) :
      /\ pool.poolConfig.rewardsDeposits[i].startTime < t
      /\ pool.poolConfig.rewardsDeposits[i].endTime > t }

\* C13: the dailyReward of a jetton state is the sum of distributionSpeed over exactly the
\* reward deposits active at the second the build started (startTime < now < endTime); a
\* deposit that starts later or has ended adds nothing, and the APR is derived from that sum.
\* (The sample deposits have the speeds 1, 2, 4, 8, so the sum names the set.)
C13_DailyRewardIsActiveSum ==
  \A s \in ReturnedOfType("jetton") :
    LET pool == agg.o.commonData.jettonPools[1]
        t == agg.startedAt \div MsPerSecond
        active == ActiveDeposits(pool, t)
        speed(i) == IF i \in active THEN pool.poolConfig.rewardsDeposits[i].distributionSpeed ELSE 0
    IN /\ s.dailyReward = speed(1) + speed(2) + speed(3) + speed(4)
       /\ s.annualYield = calcJettonStakingApr(pool.poolConfig.tvl, s.dailyReward)

\* C13 witness: two deposits are active, one starts later and one has ended
C13_Witness ==
  \E s \in ReturnedOfType("jetton") :
    /\ ActiveDeposits(agg.o.commonData.jettonPools[1], agg.startedAt \div MsPerSecond) = {1, 2}
    /\ s.dailyReward = 3

\* C14: every list getStakingStates returns holds exactly one liquid state, its first
\* element; for an account without the liquid jetton in its balance map that state has
\* tokenBalance 0 and a balance equal to the pending unstake-request amount of the backend.
C14_ExactlyOneLiquid ==
  agg.pc = "done" =>
    /\ Cardinality({ i \in 1..Len(agg.states) : agg.states[i].type = "liquid" }) = 1
    /\ agg.states[1].type = "liquid"
    /\ Len(agg.states) = 1 + Len(agg.tasks)
    /\ LiquidSlug \notin DOMAIN agg.o.balances =>
         /\ agg.states[1].tokenBalance = 0
         /\ agg.states[1].unstakeRequestAmount =
              (agg.o.backendState.liquidUnstakeRequestAmount * ONE_TON) \div DecimalDen
         /\ agg.states[1].balance = agg.states[1].unstakeRequestAmount

\* C14 witness: a list with other variants was returned for an account that holds no liquid
\* jetton but has an unstake request pending
C14_Witness ==
  /\ agg.pc = "done"
  /\ Len(agg.states) >= 3
  /\ LiquidSlug \notin DOMAIN agg.o.balances
  /\ agg.states[1].type = "liquid"
  /\ agg.states[1].balance > 0

\* C15: a returned list holds an ethena state only if the balance map holds the wrapped
\* token (tsUSDe, the token whose balance buildEthenaState reads) and
\* commonData.ethena.isDisabled is not set.
C15_EthenaOnlyForWrappedHolders ==
  ReturnedOfType("ethena") /= {} =>
    /\ TON_TSUSDE.slug \in DOMAIN agg.o.balances
    /\ ~agg.o.commonData.ethena.isDisabled

\* C16: checkUnstakeDraft returns, for each of the four variants, the fee the pipeline
\* computed and a defined tokenAmount: the amount itself for nominators and jetton, and for
\* liquid and ethena the amount divided by the rate, or the token balance on a full-balance
\* request.
C16_TokenAmountAlwaysDefined ==
  (chk.op = "checkUnstakeDraft" /\ ~chk.thrown) =>
    /\ chk.result = chk.pipe
    /\ chk.tokenAmount /= Undefined
    /\ chk.state.type \in {"nominators", "jetton"} => chk.tokenAmount = chk.amount
    /\ chk.state.type \in {"liquid", "ethena"} =>
         chk.tokenAmount =
           IF chk.amount = chk.state.balance THEN chk.state.tokenBalance
           ELSE (chk.amount * ONE_TON) \div ((chk.rate * ONE_TON) \div DecimalDen)

\* C17: submitUnstake of a liquid state sends a withdrawal with waitTillRoundEnd set and
\* fillOrKill clear (BestRate) exactly when the state's instantAvailable is zero, and with
\* both flags clear (Default) otherwise; fillOrKill is never set.
C17_LiquidUnstakeMode ==
  ( /\ sub.pc \in {"awaiting", "returned"}
    /\ sub.op = "submitUnstake"
    /\ sub.state.type = "liquid"
    /\ sub.transfer.called )
  => /\ sub.transfer.payload.type = "liquidWithdraw"
     /\ sub.transfer.payload.waitTillRoundEnd = (sub.state.instantAvailable = 0)
     /\ sub.transfer.payload.fillOrKill = FALSE
     /\ sub.transfer.payload.amount = sub.amount
     /\ sub.transfer.amount = TON_GAS.unstakeLiquid

\* C17 witness: a liquid unstake was submitted while the instant withdrawal was available
C17_Witness ==
  /\ sub.pc = "awaiting"
  /\ sub.op = "submitUnstake"
  /\ sub.state.type = "liquid"
  /\ sub.state.instantAvailable > 0
  /\ sub.transfer.called
  /\ ~sub.transfer.payload.waitTillRoundEnd

ConvertRoundTrip_MultipliesBack(kind, amount) ==
  LET rate == IF kind = "ethena" THEN EthenaRate(network, commonCache)
              ELSE commonCache.liquid.currentRate
      value == bigintMultiplyToNumber(amount, rate)
  IN /\ chk.op = "none"
     /\ chk' = [ op |-> "roundTrip", kind |-> kind, amount |-> amount, rate |-> rate,
                 value |-> value, back |-> bigintMultiplyToNumber(value, rate) ]
     /\ ChkUnchanged

\* A token amount is converted to its display value as the state builders do
\* (bigintMultiplyToNumber by the liquid or the ethena rate) and the display value is
\* converted back as checkUnstakeDraft does (bigintDivideToNumber by the same rate).
ConvertRoundTrip(kind, amount) ==
  LET rate == IF kind = "ethena" THEN EthenaRate(network, commonCache)
              ELSE commonCache.liquid.currentRate
      value == bigintMultiplyToNumber(amount, rate)
  IN /\ chk.op = "none"
     /\ chk' = [ op |-> "roundTrip", kind |-> kind, amount |-> amount, rate |-> rate,
                 value |-> value, back |-> bigintDivideToNumber(value, rate) ]
     /\ ChkUnchanged

InitRate ==
  /\ network \in Networks
  /\ now = 0
  /\ cacheStakedAt = Undefined
  /\ backendState = NoBackendState
  /\ simulateLongUnstaking = FALSE
  /\ commonCache \in CheckCommonData
  /\ lastFetch = [called |-> FALSE]
  /\ agg = Idle
  /\ chk = NoCheck
  /\ sub = Idle
  /\ win = NoWindow

NextRate ==
  \/ \E commonData \in CheckCommonData : RefreshCommonCache(commonData)
  \/ \E kind \in {"liquid", "ethena"}, amount \in Amounts : ConvertRoundTrip(kind, amount)
  \/ CheckDone

SpecRate == InitRate /\ [][NextRate]_vars

\* C19 as stated: for every rate r > 0 and amount a >= 0, dividing by r what multiplying a
\* by r gave differs from a by at most one minor unit.
C19_RoundTripWithinOneUnit ==
  chk.op = "roundTrip" =>
    /\ chk.amount - chk.back <= 1
    /\ chk.back - chk.amount <= 1

\* C19 as amended: the round trip never returns more than a; for a rate r >= 1 it returns a
\* or a - 1; for a rate 0 < r < 1 the loss can exceed one minor unit and is below 1/r + 1.
C19_RoundTripLossBound ==
  chk.op = "roundTrip" =>
    LET scaled == (chk.rate * ONE_TON) \div DecimalDen
        loss == chk.amount - chk.back
    IN /\ loss >= 0
       /\ loss * scaled < ONE_TON + scaled
       /\ chk.rate >= DecimalDen => loss <= 1

\* C19 witness: at a rate below one half the round trip loses more than one minor unit
C19_Witness ==
  /\ chk.op = "roundTrip"
  /\ chk.kind = "liquid"
  /\ 2 * chk.rate < DecimalDen
  /\ chk.amount - chk.back > 1

\* ------------------------------------------- instant withdrawal specification
\* stakes and aggregations of one account over time, with the developer setting
\* simulateLongUnstaking on or off
InitInstant ==
  /\ network = "mainnet"
  /\ now = 0
  /\ cacheStakedAt = Undefined
  /\ backendState \in { fetchBackendStakingState(r, TRUE).value : r \in TimeResponses }
  /\ simulateLongUnstaking \in BOOLEAN
  /\ commonCache = DefaultCommonData
  /\ lastFetch = [called |-> FALSE]
  /\ agg = Idle
  /\ chk = NoCheck
  /\ sub = Idle
  /\ win = NoWindow

SpecInstant == InitInstant /\ [][NextTime]_vars

\* a getStakingStates call starts in this step
AggregationStarts == agg.pc /= "running" /\ agg'.pc = "running"

\* C20: the cache holds the time of the last successful submitStake; a getStakingStates call
\* evaluated no later than the validation period after it reports instantAvailable 0
\* whatever stakedAt the backend state carries; instantAvailable is
\* commonData.liquid.available exactly when more than the validation period has passed since
\* the larger of the cached and the backend stakedAt and simulateLongUnstaking is off, and
\* 0 otherwise.
C20_NoInstantDuringValidation ==
  [][ /\ (SubmitReturns /\ sub.op = "submitStake" /\ sub'.pipe.error = "none")
           => cacheStakedAt' = now
      /\ cacheStakedAt' /= cacheStakedAt
           => (SubmitReturns /\ sub.op = "submitStake" /\ sub'.pipe.error = "none")
      /\ AggregationStarts =>
           LET cached == IF cacheStakedAt = Undefined THEN 0 ELSE cacheStakedAt
               backend == IF backendState.stakedAt = Undefined THEN 0 ELSE backendState.stakedAt
               latest == IF cached >= backend THEN cached ELSE backend
               instant == agg'.liquid.instantAvailable
           IN /\ (cacheStakedAt /= Undefined /\ now - cacheStakedAt <= VALIDATION_PERIOD_MS)
                   => instant = 0
              /\ instant = IF now - latest > VALIDATION_PERIOD_MS /\ ~simulateLongUnstaking
                           THEN agg'.o.commonData.liquid.available ELSE 0
    ]_vars

\* C20 witness: the backend state carries no stakedAt, and an aggregation that started at the
\* end of the validation period after a stake reports no instant withdrawal
C20_Witness ==
  /\ agg.pc \in {"running", "done"}
  /\ agg.o.backendState.stakedAt = Undefined
  /\ agg.cacheSeen /= Undefined
  /\ agg.startedAt - agg.cacheSeen = VALIDATION_PERIOD_MS
  /\ agg.startedAt > VALIDATION_PERIOD_MS
  /\ ~simulateLongUnstaking
  /\ agg.liquid.instantAvailable = 0
  /\ agg.o.commonData.liquid.available > 0

\* ---------------------------------------- check-then-submit specification
\* the call a draft check has answered, for the caller to submit: the amount to pass on is
\* the checked amount for a stake and the returned tokenAmount for an unstake
CheckedCalls(op) ==
  IF chk.op = op /\ ~chk.thrown /\ sub.pc = "idle"
  THEN { [ amount |-> IF op = "checkUnstakeDraft" THEN chk.tokenAmount ELSE chk.amount,
           state |-> chk.state ] }
  ELSE {}

InitAgree ==
  /\ network \in Networks
  /\ now = 0
  /\ cacheStakedAt = Undefined
  /\ backendState = NoBackendState
  /\ Quiet

NextAgree ==
  \/ \E amount \in Amounts, state \in CallerStates(chk.op = "none" /\ sub.pc = "idle"),
        pipe \in {DraftOk(1), DraftError("PipelineError")} :
       CheckStakeDraft(amount, state, pipe)
  \/ \E amount \in Amounts, state \in CallerStates(chk.op = "none" /\ sub.pc = "idle"),
        pipe \in {DraftOk(1), DraftError("PipelineError")} :
       CheckUnstakeDraft(amount, state, pipe, TRUE)
  \/ \E c \in CheckedCalls("checkStakeDraft") : SubmitStake(c.amount, c.state)
  \/ \E c \in CheckedCalls("checkUnstakeDraft") : SubmitUnstake(c.amount, c.state, TRUE)
  \/ \E pipe \in AwaitedAnswers : SubmitReturn(pipe)
  \/ SubmitDone
  \/ CheckDone

SpecAgree == InitAgree /\ [][NextAgree]_vars

\* C21: the transfer submitStake / submitUnstake hands to the pipeline and the draft the
\* check of the same call handed to it carry the same attached amount, token, forward
\* amount and payload (for a liquid unstake the same waitTillRoundEnd and fillOrKill).
C21_CheckAndSubmitAgree ==
  ( /\ sub.pc \in {"awaiting", "returned"}
    /\ \/ /\ chk.op = "checkStakeDraft" /\ sub.op = "submitStake"
          /\ sub.amount = chk.amount
       \/ /\ chk.op = "checkUnstakeDraft" /\ sub.op = "submitUnstake"
          /\ sub.amount = chk.tokenAmount
    /\ ~chk.thrown
    /\ sub.state = chk.state )
  => /\ chk.draft.called
     /\ sub.transfer.called
     /\ sub.transfer.amount = chk.draft.amount
     /\ sub.transfer.tokenAddress = chk.draft.tokenAddress
     /\ sub.transfer.forwardAmount = chk.draft.forwardAmount
     /\ sub.transfer.payload = chk.draft.payload
====
